---- MODULE Spec2Model ----
(***************************************************************************)
(* State-machine model of the nonce extractor                              *)
(* (src/src/ia-modules/analytics/lmdb_nonce_extractor.py): the header      *)
(* decoder, the recent-hash window, the store cursor walk with its retry   *)
(* counter, the ledger writer with its backup path, and the scheduler      *)
(* loop with its signal handler.                                           *)
(*                                                                         *)
(* Abstractions.  The store is a sequence of records, oldest first; a      *)
(* record is named by an index into the table BlockBytes of concrete byte  *)
(* strings.  sha256 is taken to be injective on that table, so a digest is *)
(* the index of the bytes.  A store access that raises lmdb.Error leaves   *)
(* the cursor where it was.  Wall-clock time is the number of the current  *)
(* run (two runs are at least update_interval seconds apart).              *)
(***************************************************************************)
EXTENDS Integers, Sequences, FiniteSets, TLC

(* ------------------------------ bounds -------------------------------- *)
\* records in the store
MaxStore == 2
\* largest CONFIG['hash_window'] tried
MaxWindow == 2
\* largest CONFIG['max_blocks'] tried
MaxPerRun == 2
\* lmdb errors, ledger I/O errors, appended blocks and runs after the first,
\* all together, in one behaviour
MaxEvents == 3

\* longest record handed to parse_block taken alone
MaxLen == 60
\* largest major version byte tried there, besides 9 and 255
MaxMajor == 5

\* distinct hashes, and inserts, tried on the window taken alone
MaxHashes == 5
MaxInserts == 5

\* rows after the header in the ledger file handed to load_existing_nonces
MaxRows == 3
\* entries in the batch an instance hands to write_csv
MaxBatch == 2

(* ------------------------ program constants --------------------------- *)
\* CONFIG['max_retries']
max_retries == 5
\* CONFIG['update_interval']
update_interval == 3600
\* the literal of the walk's guard, "retries < 3"
RetryCeiling == 3
\* main_loop line 196: time.sleep(60) after an exception caught at line 194
Cooldown == 60

\* CONFIG['nonce_offsets']: the mapped major versions and the 'default' entry
nonce_offsets == [v \in {1, 2, 3, 4} |-> 39 + 4 * v]
nonce_offsets_default == 43

Min(a, b) == IF a < b THEN a ELSE b

(* --------------------------- record bytes ----------------------------- *)
\* struct.pack('<I', n)
LE32(n) == << n % 256, (n \div 256) % 256, (n \div 65536) % 256, (n \div 16777216) % 256 >>

\* A block of len bytes: major and minor version in bytes 0 and 1, the block
\* timestamp in bytes 2..5, the nonce at byte offset off, zeros elsewhere.
MkBlock(major, minor, ts, off, nonce, len) ==
    [i \in 1..len |->
        LET j == i - 1 IN
        IF j = 0 THEN major
        ELSE IF j = 1 THEN minor
        ELSE IF j >= 2 /\ j <= 5 THEN LE32(ts)[j - 1]
        ELSE IF j >= off /\ j <= off + 3 THEN LE32(nonce)[j - off + 1]
        ELSE 0]

\* The records the store may hold.  1: major version 1, exactly offset+4 bytes.
\* 2: an unmapped major version (default offset).  3: major version 4 but too
\* short for its nonce field (offset 55), a corrupt record.  0: the empty
\* bytes, which cursor.value() yields when the cursor is not positioned.
BlockBytes(b) ==
    CASE b = 1 -> MkBlock(1, 3, 70000, 43, 6699, 47)
      [] b = 2 -> MkBlock(9, 1, 70001, 43, 300, 50)
      [] b = 3 -> MkBlock(4, 2, 70002, 55, 77, 47)
      [] OTHER -> << >>

BlockIds == {1, 2, 3}

\* hashlib.sha256(data).hexdigest(), injective on the table: the index of data
_block_hash(data) == CHOOSE b \in BlockIds \cup {0} : BlockBytes(b) = data

(* --------------------------- header decoder --------------------------- *)
\* a slice that yields zeros for the bytes beyond the end of the record
SlicePadded(data, a, b) ==
    [i \in 1..(b - a) |-> IF a + i <= Len(data) THEN data[a + i] ELSE 0]

\* data[a:b] of Python: clamped to the bytes there are
Slice(data, a, b) == SubSeq(data, a + 1, Min(b, Len(data)))

\* struct.unpack('<B', s) and struct.unpack('<I', s): struct.error unless s
\* has exactly the size of the format
UnpackOk(s, size) == Len(s) = size
UnpackB(s) == s[1]
UnpackI(s) == s[1] + 256 * s[2] + 65536 * s[3] + 16777216 * s[4]

\* a lookup that ignores the table
ParseOffsetAlwaysDefault(major_version) == nonce_offsets_default

\* line 94: CONFIG['nonce_offsets'].get(major_version, the 'default' entry)
ParseOffset(major_version) ==
    IF major_version \in DOMAIN nonce_offsets
    THEN nonce_offsets[major_version] ELSE nonce_offsets_default

\* parse_block: << >> for None, << parsed >> for a parsed block
parse_block(data) ==
    IF ~UnpackOk(Slice(data, 0, 1), 1) THEN << >>
    ELSE LET major_version == UnpackB(Slice(data, 0, 1))
             offset == ParseOffset(major_version)
         IN  IF   ~UnpackOk(Slice(data, offset, offset + 4), 4)
               \/ ~UnpackOk(Slice(data, 1, 2), 1)
               \/ ~UnpackOk(Slice(data, 2, 6), 4)
             THEN << >>
             ELSE << [nonce |-> UnpackI(Slice(data, offset, offset + 4)),
                      major_version |-> major_version,
                      minor_version |-> UnpackB(Slice(data, 1, 2)),
                      timestamp |-> UnpackI(Slice(data, 2, 6)),
                      size |-> Len(data)] >>

\* hex(n) of Python: "0x" and the lowercase digits, as a sequence of characters
HexDigit(d) == << "0", "1", "2", "3", "4", "5", "6", "7",
                  "8", "9", "a", "b", "c", "d", "e", "f" >>[d + 1]
RECURSIVE HexDigits(_)
HexDigits(n) == IF n < 16 THEN << HexDigit(n) >>
                ELSE Append(HexDigits(n \div 16), HexDigit(n % 16))
hex(n) == << "0", "x" >> \o HexDigits(n)

(* ------------------------------ ledger -------------------------------- *)
\* csv.DictWriter's fieldnames, in column order
fieldnames == << "timestamp", "nonce", "nonce_hex", "major_ver", "minor_ver",
                 "block_timestamp", "block_size", "block_hash",
                 "accepted", "predicted_by_ia" >>

\* A line of the ledger file: the header line (writeheader) or the line of
\* one entry (writerows)
HeaderRow == [header |-> TRUE, cells |-> << >>]
EntryRow(e) == [header |-> FALSE, cells |-> << e >>]

RECURSIVE EntryRows(_)
EntryRows(entries) ==
    IF entries = << >> THEN << >>
    ELSE << EntryRow(Head(entries)) >> \o EntryRows(Tail(entries))

AbsentFile == [exists |-> FALSE, rows |-> << >>]

\* a writer that writes the header on every call
CsvOutputAlwaysHeader(file_exists, entries) == << HeaderRow >> \o EntryRows(entries)

\* write_csv lines 43-55: what the open file receives, in order: the header
\* when the file did not exist, then the entries
CsvOutput(file_exists, entries) ==
    (IF ~file_exists THEN << HeaderRow >> ELSE << >>) \o EntryRows(entries)

\* create_backup lines 66-72: the backup's directory and file name
\* CONFIG['csv_output'] (line 19): its directory, its basename and the
\* basename without the extension
csv_output == [dir |-> "data", base |-> "datanonce_training_data.csv",
               stem |-> "datanonce_training_data"]
BackupFile(now) ==
    [dir |-> csv_output.dir,
     name |-> << "nonce_training_data", ".backup_", now, ".csv" >>]

(* ------------------------ existing-ledger index ----------------------- *)
\* The ledger file as text: a sequence of lines, a line a sequence of cells,
\* a cell a sequence of characters.
Range(q) == {q[i] : i \in 1..Len(q)}

\* str(n) of a non-negative int
RECURSIVE DecDigits(_)
DecDigits(n) == IF n < 10 THEN << HexDigit(n) >>
                ELSE Append(DecDigits(n \div 10), HexDigit(n % 10))

\* the line csv.DictWriter writes for an entry (the timestamp and the digest
\* abridged to a letter and a number)
CsvLine(e) ==
    << << "T" >> \o DecDigits(e.timestamp), DecDigits(e.nonce), e.nonce_hex,
       DecDigits(e.major_ver), DecDigits(e.minor_ver),
       DecDigits(e.block_timestamp), DecDigits(e.block_size),
       << "h" >> \o DecDigits(e.block_hash), DecDigits(e.accepted),
       DecDigits(e.predicted_by_ia) >>

AsciiDigits == {"0", "1", "2", "3", "4", "5", "6", "7", "8", "9"}
\* str.isdigit(): not empty and digits only; SUPERSCRIPT TWO ("sup2") is a
\* digit for str.isdigit() that int() does not accept
isdigit(cell) == cell # << >> /\ Range(cell) \subseteq AsciiDigits \cup {"sup2"}
IntOk(cell) == cell # << >> /\ Range(cell) \subseteq AsciiDigits
DigitValue(c) == CHOOSE d \in 0..9 : HexDigit(d) = c
RECURSIVE int(_)
int(cell) == IF Len(cell) = 1 THEN DigitValue(cell[1])
             ELSE 10 * int(SubSeq(cell, 1, Len(cell) - 1)) + DigitValue(cell[Len(cell)])

FieldIndex(fields, name) == CHOOSE i \in 1..Len(fields) : fields[i] = name

\* load_existing_nonces, lines 106-118.  csv.DictReader takes the first line
\* as the field names (None for an empty file), skips blank lines and gives
\* None for a field the line is too short to hold.  Whatever is raised inside
\* the try (the TypeError of issubset(None), the ValueError of line 114, the
\* AttributeError of None.isdigit(), the ValueError of int()) is caught at
\* line 116 with existing still the empty set of line 107.
load_existing_nonces(file) ==
    IF ~file.exists THEN {}
    ELSE IF file.lines = << >> THEN {}
    ELSE LET fields == file.lines[1]
             rows == SelectSeq(Tail(file.lines), LAMBDA r : r # << >>)
         IN  IF ~({"nonce", "block_hash"} \subseteq Range(fields)) THEN {}
             ELSE LET k == FieldIndex(fields, "nonce")
                      Raises(r) == \/ Len(r) < k
                                   \/ isdigit(r[k]) /\ ~IntOk(r[k])
                  IN  IF \E i \in 1..Len(rows) : Raises(rows[i]) THEN {}
                      ELSE {int(rows[i][k]) :
                               i \in {j \in 1..Len(rows) : isdigit(rows[j][k])}}

(* ------------------------- recent-hash window ------------------------- *)
\* a deque that never evicts
deque_append_unbounded(dq, x, maxlen) == Append(dq, x)

\* a deque that makes room by dropping its newest element
deque_append_drops_newest(dq, x, maxlen) ==
    IF Len(dq) < maxlen THEN Append(dq, x)
    ELSE Append(SubSeq(dq, 1, Len(dq) - 1), x)

\* deque(maxlen=...).append(x): the oldest element leaves a full deque; a
\* deque of maxlen 0 stays empty
deque_append(dq, x, maxlen) ==
    IF maxlen = 0 THEN << >>
    ELSE IF Len(dq) < maxlen THEN Append(dq, x)
    ELSE Append(Tail(dq), x)

\* a membership test that looks at the hash inserted last only
InWindowNewestOnly(h, dq) == dq # << >> /\ dq[Len(dq)] = h

\* "block_hash in self.processed_hashes"
InWindow(h, dq) == \E i \in 1..Len(dq) : dq[i] = h

(* ------------------------------- state -------------------------------- *)
VARIABLES
    hash_window,       \* CONFIG['hash_window']
    max_blocks,        \* CONFIG['max_blocks']
    store,             \* the blocks database, oldest record first
    processed_hashes,  \* self.processed_hashes
    running,           \* self.running
    pc,                \* where main_loop / run_extraction / process_blocks is
    runs,              \* runs started; also the wall clock
    env_open,          \* the lmdb environment of the run is open
    cur,               \* cursor position in store, 0: not positioned
    new_entries,       \* process_blocks' new_entries
    block_count,       \* process_blocks' block_count
    retries,           \* process_blocks' retries
    ledger,            \* the file at CONFIG['csv_output']
    backups,           \* the backup files created, in order
    write_ret,         \* what the last write_csv call returned
    events,            \* events counted against MaxEvents so far: lmdb errors,
                       \* ledger I/O errors, blocks appended, runs after the first
    \* history, read by the properties only
    emitted,           \* every block_hash emitted by this process, in order
    last_inc,          \* what last incremented retries: "none", "dup", "err"
    fails,             \* consecutive failures of the pending value / prev access
    slept,             \* the last backoff sleep of this walk
    abort,             \* the entries held when store errors exhausted the retries
    dup_skips,         \* the duplicate skips counted in retries
    positions,         \* the cursor position each entry of new_entries was read at
    ended,             \* how the walk ended: "none", "guard" (line 127), "break" (line 155)
    write_outcome,     \* how the run's write_csv went: "none", "ok", "failed"
    backup_outcome,    \* how its create_backup went
    written,           \* the batches written successfully, in order
    write_failures,    \* number of failed write_csv calls
    run_fault,         \* what failed in this cycle, by the handler that caught it:
                       \* "none", "open" / "lmdb" (line 177), "unexpected"
                       \* (line 179), "escaped" (line 194)
    waited,            \* the argument of the time.sleep of main_loop that has
                       \* just returned, 0 once the next run has begun
    calm,              \* 1: the run before this one saw no store error and no
                       \* signal, the store has not changed since it began and
                       \* neither has this run seen one so far; -1: this run
                       \* saw a store error, or a signal has arrived; else 0
    \* the functions taken alone: an argument and the value returned
    block_data,        \* the bytes handed to parse_block
    parsed_block,      \* what parse_block returned for them
    csv_file,          \* the ledger file as text, as load_existing_nonces reads it
    existing,          \* what load_existing_nonces returned
    loads,             \* number of calls of load_existing_nonces so far
    writers            \* two instances inside write_csv: where each is, what it saw

cfg == << hash_window, max_blocks >>
walk == << cur, new_entries, positions, block_count, retries >>
files == << ledger, backups, write_ret >>
walk_hist == << last_inc, fails, slept, abort, dup_skips, ended >>
write_hist == << write_outcome, backup_outcome, written, write_failures >>
sched_hist == << run_fault, waited >>
unit == << block_data, parsed_block, csv_file, existing, loads, writers >>
vars == << hash_window, max_blocks, store, processed_hashes, running, pc, runs,
           env_open, cur, new_entries, block_count, retries, ledger, backups,
           write_ret, events, emitted, last_inc, fails, slept, abort,
           dup_skips, positions, ended, write_outcome, backup_outcome, written, write_failures,
           run_fault, waited, calm, block_data, parsed_block, csv_file, existing, loads,
           writers >>

RECURSIVE SeqsUpTo(_, _)
SeqsUpTo(S, n) ==
    IF n = 0 THEN {<< >>}
    ELSE LET shorter == SeqsUpTo(S, n - 1)
         IN  shorter \cup {Append(s, x) : s \in shorter, x \in S}

NoFails == [value |-> 0, prev |-> 0]

\* no instance is inside write_csv
NoWriters == << >>

\* NonceExtractor.__init__, with the store and the configuration the process
\* finds; the ledger file does not exist yet
Init ==
    /\ hash_window \in 0..MaxWindow
    /\ max_blocks \in 0..MaxPerRun
    /\ store \in SeqsUpTo(BlockIds, MaxStore)
    /\ processed_hashes = << >>
    /\ running = TRUE
    /\ pc = "loop"
    /\ runs = 0
    /\ env_open = FALSE
    /\ cur = 0
    /\ new_entries = << >>
    /\ block_count = 0
    /\ retries = 0
    /\ ledger = AbsentFile
    /\ backups = << >>
    /\ write_ret = "None"
    /\ events = 0
    /\ emitted = << >>
    /\ last_inc = "none"
    /\ fails = NoFails
    /\ slept = << >>
    /\ abort = << >>
    /\ dup_skips = 0
    /\ positions = << >>
    /\ ended = "none"
    /\ write_outcome = "none"
    /\ backup_outcome = "none"
    /\ written = << >>
    /\ write_failures = 0
    /\ run_fault = "none"
    /\ waited = 0
    /\ calm = 0
    /\ block_data = << >>
    /\ parsed_block = << >>
    /\ csv_file = [exists |-> FALSE, lines |-> << >>]
    /\ existing = {}
    /\ loads = 0
    /\ writers = NoWriters

(* ------------------------- the cursor walk ---------------------------- *)
\* process_blocks lines 137-148: the entry of a parsed block
MkEntry(parsed, block_hash, now) ==
    [timestamp |-> now,
     nonce |-> parsed.nonce,
     nonce_hex |-> hex(parsed.nonce),
     major_ver |-> parsed.major_version,
     minor_ver |-> parsed.minor_version,
     block_timestamp |-> parsed.timestamp,
     block_size |-> parsed.size,
     block_hash |-> block_hash,
     accepted |-> 0,
     predicted_by_ia |-> 0]

\* cursor.value(): the record under the cursor, the empty bytes (0) when it
\* is not positioned
CursorValue == IF cur = 0 THEN 0 ELSE store[cur]

\* _block_hash and parse_block on the bytes of each record of the table
HashOf == [b \in BlockIds \cup {0} |-> _block_hash(BlockBytes(b))]
ParsedOf == [b \in BlockIds \cup {0} |-> parse_block(BlockBytes(b))]

\* the guard with its count test off by one
WalkGuardOffByOne == running /\ block_count <= max_blocks /\ retries < RetryCeiling

\* the guard without its test of self.running
WalkGuardIgnoresRunning == block_count < max_blocks /\ retries < RetryCeiling

\* line 127: the guard of the walk's while loop
WalkGuard == running /\ block_count < max_blocks /\ retries < RetryCeiling

\* a run that drops the entries of a walk the signal has stopped
AfterWalkDropsCancelledBatch ==
    IF new_entries # << >> /\ running THEN "write" ELSE "close"

\* lines 174-176 of run_extraction, once process_blocks has returned
AfterWalk == IF new_entries # << >> THEN "write" ELSE "close"

\* a handler that lets the error leave the loop with the entries dropped
LmdbErrorDropsEntries(kind) ==
    /\ events < MaxEvents
    /\ events' = events + 1
    /\ retries' = retries + 1
    /\ pc' = "while"
    /\ fails' = [fails EXCEPT ![kind] = @ + 1]
    /\ slept' = << [delay |-> 2 ^ (retries + 1),
                    k |-> fails[kind] + 1,
                    retries |-> retries + 1] >>
    /\ last_inc' = "err"
    /\ abort' = IF retries + 1 >= RetryCeiling THEN << new_entries >> ELSE abort
    /\ new_entries' = << >>
    /\ positions' = << >>
    /\ calm' = -1
    /\ UNCHANGED << unit, cfg, store, processed_hashes, running, runs, env_open, cur,
                    block_count, files, emitted, dup_skips, ended, write_hist, sched_hist >>

\* lines 157-160: the handler of an lmdb.Error raised by the access `kind`
\* ("value" or "prev") inside the loop: count it, sleep 2 ** retries, loop
LmdbErrorHandler(kind) ==
    /\ events < MaxEvents
    /\ events' = events + 1
    /\ retries' = retries + 1
    /\ pc' = "while"
    /\ fails' = [fails EXCEPT ![kind] = @ + 1]
    /\ slept' = << [delay |-> 2 ^ (retries + 1),
                    k |-> fails[kind] + 1,
                    retries |-> retries + 1] >>
    /\ last_inc' = "err"
    /\ abort' = IF retries + 1 >= RetryCeiling THEN << new_entries >> ELSE abort
    /\ calm' = -1
    /\ UNCHANGED << unit, cfg, store, processed_hashes, running, runs, env_open, cur,
                    new_entries, positions, block_count, files, emitted, dup_skips, ended,
                    write_hist, sched_hist >>

\* a loop body that counts a record it cannot decode in retries
WalkIterCountsCorrupt ==
    /\ pc = "while"
    /\ WalkGuard
    /\ \/ LmdbErrorHandler("value")
       \/ LET data == CursorValue
              block_hash == HashOf[data]
              parsed == ParsedOf[data]
          IN  /\ fails' = [fails EXCEPT !["value"] = 0]
              /\ IF InWindow(block_hash, processed_hashes)
                 THEN \* lines 132-134: a duplicate, "continue"
                      /\ retries' = retries + 1
                      /\ last_inc' = "dup"
                      /\ dup_skips' = dup_skips + 1
                      /\ pc' = "while"
                      /\ UNCHANGED << new_entries, positions, processed_hashes, block_count, emitted >>
                 ELSE IF parsed # << >>
                 THEN \* lines 136-152
                      /\ new_entries' = Append(new_entries, MkEntry(parsed[1], block_hash, runs))
                      /\ positions' = Append(positions, cur)
                      /\ processed_hashes' = deque_append(processed_hashes, block_hash, hash_window)
                      /\ emitted' = Append(emitted, block_hash)
                      /\ block_count' = block_count + 1
                      /\ retries' = 0
                      /\ last_inc' = "none"
                      /\ dup_skips' = 0
                      /\ pc' = "prev"
                 ELSE /\ pc' = "prev"
                      /\ retries' = retries + 1
                      /\ UNCHANGED << new_entries, positions, processed_hashes, block_count,
                                      emitted, last_inc, dup_skips >>
              /\ UNCHANGED << unit, cfg, calm, store, running, runs, env_open, cur, files,
                              events, slept, abort, ended, write_hist, sched_hist >>

\* lines 128-152: one pass of the loop body up to the cursor step
WalkIter ==
    /\ pc = "while"
    /\ WalkGuard
    /\ \/ LmdbErrorHandler("value")
       \/ LET data == CursorValue
              block_hash == HashOf[data]
              parsed == ParsedOf[data]
          IN  /\ fails' = [fails EXCEPT !["value"] = 0]
              /\ IF InWindow(block_hash, processed_hashes)
                 THEN \* lines 132-134: a duplicate, "continue"
                      /\ retries' = retries + 1
                      /\ last_inc' = "dup"
                      /\ dup_skips' = dup_skips + 1
                      /\ pc' = "while"
                      /\ UNCHANGED << new_entries, positions, processed_hashes, block_count, emitted >>
                 ELSE IF parsed # << >>
                 THEN \* lines 136-152
                      /\ new_entries' = Append(new_entries, MkEntry(parsed[1], block_hash, runs))
                      /\ positions' = Append(positions, cur)
                      /\ processed_hashes' = deque_append(processed_hashes, block_hash, hash_window)
                      /\ emitted' = Append(emitted, block_hash)
                      /\ block_count' = block_count + 1
                      /\ retries' = 0
                      /\ last_inc' = "none"
                      /\ dup_skips' = 0
                      /\ pc' = "prev"
                 ELSE \* parse_block returned None
                      /\ pc' = "prev"
                      /\ UNCHANGED << new_entries, positions, processed_hashes, block_count,
                                      emitted, retries, last_inc, dup_skips >>
              /\ UNCHANGED << unit, cfg, calm, store, running, runs, env_open, cur, files,
                              events, slept, abort, ended, write_hist, sched_hist >>

\* a loop end that also stops the scheduler when the retries are exhausted
WalkExitStopsScheduler ==
    /\ pc = "while"
    /\ ~WalkGuard
    /\ pc' = "ret"
    /\ ended' = "guard"
    /\ running' = (running /\ retries < RetryCeiling)
    /\ UNCHANGED << unit, cfg, calm, store, processed_hashes, runs, env_open, walk,
                    files, events, emitted, last_inc, fails, slept, abort,
                    dup_skips, write_hist, sched_hist >>

\* line 127 false: the loop ends
WalkExit ==
    /\ pc = "while"
    /\ ~WalkGuard
    /\ pc' = "ret"
    /\ ended' = "guard"
    /\ UNCHANGED << unit, cfg, calm, store, processed_hashes, running, runs, env_open, walk,
                    files, events, emitted, last_inc, fails, slept, abort,
                    dup_skips, write_hist, sched_hist >>

\* line 161, then lines 174-176 of run_extraction: process_blocks returns
\* new_entries and its other locals are gone
WalkReturn ==
    /\ pc = "ret"
    /\ pc' = AfterWalk
    /\ cur' = 0
    /\ block_count' = 0
    /\ retries' = 0
    /\ last_inc' = "none"
    /\ fails' = NoFails
    /\ slept' = << >>
    /\ dup_skips' = 0
    /\ ended' = "none"
    /\ UNCHANGED << unit, cfg, calm, store, processed_hashes, running, runs, env_open,
                    new_entries, positions, files, events, emitted, abort, write_hist, sched_hist >>

\* a cursor.prev() that reports an older record and does not move
WalkPrevStaysPut ==
    /\ pc = "prev"
    /\ \/ LmdbErrorHandler("prev")
       \/ /\ cur > 1
          /\ cur' = cur
          /\ pc' = "while"
          /\ fails' = NoFails
          /\ UNCHANGED << unit, cfg, calm, store, processed_hashes, running, runs, env_open,
                          new_entries, positions, block_count, retries, files, events,
                          emitted, last_inc, slept, abort, dup_skips, ended,
                          write_hist, sched_hist >>
       \/ /\ cur <= 1
          /\ cur' = 0
          /\ pc' = "ret"
          /\ ended' = "break"
          /\ fails' = NoFails
          /\ UNCHANGED << unit, cfg, calm, store, processed_hashes, running, runs, env_open,
                          new_entries, positions, block_count, retries, files, events,
                          emitted, last_inc, slept, abort, dup_skips, write_hist, sched_hist >>

\* lines 154-155: cursor.prev(), and the break when there is no older record
WalkPrev ==
    /\ pc = "prev"
    /\ \/ LmdbErrorHandler("prev")
       \/ /\ cur > 1
          /\ cur' = cur - 1
          /\ pc' = "while"
          /\ fails' = NoFails
          /\ UNCHANGED << unit, cfg, calm, store, processed_hashes, running, runs, env_open,
                          new_entries, positions, block_count, retries, files, events,
                          emitted, last_inc, slept, abort, dup_skips, ended,
                          write_hist, sched_hist >>
       \/ /\ cur <= 1
          /\ cur' = 0
          /\ pc' = "ret"
          /\ ended' = "break"
          /\ fails' = NoFails
          /\ UNCHANGED << unit, cfg, calm, store, processed_hashes, running, runs, env_open,
                          new_entries, positions, block_count, retries, files, events,
                          emitted, last_inc, slept, abort, dup_skips, write_hist, sched_hist >>

\* a walk that starts by emptying the window
CursorLastResetsWindow ==
    /\ pc = "last"
    /\ new_entries' = << >>
    /\ positions' = << >>
    /\ block_count' = 0
    /\ retries' = 0
    /\ last_inc' = "none"
    /\ fails' = NoFails
    /\ slept' = << >>
    /\ dup_skips' = 0
    /\ ended' = "none"
    /\ \/ /\ cur' = Len(store)
          /\ pc' = "while"
          /\ UNCHANGED << events, run_fault, calm >>
       \/ /\ events < MaxEvents
          /\ events' = events + 1
          /\ cur' = 0
          /\ pc' = "close"
          /\ run_fault' = "lmdb"
          /\ calm' = -1
    /\ processed_hashes' = << >>
    /\ UNCHANGED << unit, cfg, store, running, runs, env_open, files,
                    emitted, abort, write_hist, waited >>

\* lines 121-124: process_blocks up to its loop.  cursor.last() is outside the
\* try: an lmdb.Error there leaves process_blocks and is caught in
\* run_extraction (line 177), which writes nothing
CursorLast ==
    /\ pc = "last"
    /\ new_entries' = << >>
    /\ positions' = << >>
    /\ block_count' = 0
    /\ retries' = 0
    /\ last_inc' = "none"
    /\ fails' = NoFails
    /\ slept' = << >>
    /\ dup_skips' = 0
    /\ ended' = "none"
    /\ \/ /\ cur' = Len(store)
          /\ pc' = "while"
          /\ UNCHANGED << events, run_fault, calm >>
       \/ /\ events < MaxEvents
          /\ events' = events + 1
          /\ cur' = 0
          /\ pc' = "close"
          /\ run_fault' = "lmdb"
          /\ calm' = -1
    /\ UNCHANGED << unit, cfg, store, processed_hashes, running, runs, env_open, files,
                    emitted, abort, write_hist, waited >>

(* ---------------------------- ledger writer --------------------------- *)
\* what the successful path of write_csv returns (it falls off line 57)
ReturnOfSuccess == "None"

\* a backup that copies the ledger instead of moving it
LedgerAfterCopy == ledger

\* line 75 done: the ledger path after os.rename
LedgerAfterRename == AbsentFile

\* a writer that opens the ledger for writing, not for appending
WriteCsvTruncates ==
    /\ pc = "write"
    /\ LET out == CsvOutput(ledger.exists, new_entries)
       IN  \/ /\ ledger' = [exists |-> TRUE, rows |-> out]
              /\ write_outcome' = "ok"
              /\ written' = Append(written, new_entries)
              /\ write_ret' = ReturnOfSuccess
              /\ pc' = "close"
              /\ UNCHANGED << events, write_failures >>
           \/ /\ events < MaxEvents
              /\ events' = events + 1
              /\ \E k \in (-1)..Len(out) :
                    ledger' = IF k = -1 THEN ledger
                              ELSE [exists |-> TRUE,
                                    rows |-> ledger.rows \o SubSeq(out, 1, k)]
              /\ write_outcome' = "failed"
              /\ write_failures' = write_failures + 1
              /\ pc' = "backup"
              /\ UNCHANGED << written, write_ret >>
    /\ UNCHANGED << unit, cfg, calm, store, processed_hashes, running, runs, env_open, walk,
                    backups, emitted, walk_hist, backup_outcome, sched_hist >>

\* a writer that empties the window when the write fails
WriteCsvForgetsFailedBatch ==
    /\ pc = "write"
    /\ LET out == CsvOutput(ledger.exists, new_entries)
       IN  \/ /\ ledger' = [exists |-> TRUE, rows |-> ledger.rows \o out]
              /\ write_outcome' = "ok"
              /\ written' = Append(written, new_entries)
              /\ write_ret' = ReturnOfSuccess
              /\ pc' = "close"
              /\ UNCHANGED << events, write_failures, processed_hashes >>
           \/ /\ events < MaxEvents
              /\ events' = events + 1
              /\ \E k \in (-1)..Len(out) :
                    ledger' = IF k = -1 THEN ledger
                              ELSE [exists |-> TRUE,
                                    rows |-> ledger.rows \o SubSeq(out, 1, k)]
              /\ write_outcome' = "failed"
              /\ write_failures' = write_failures + 1
              /\ pc' = "backup"
              /\ processed_hashes' = << >>
              /\ UNCHANGED << written, write_ret >>
    /\ UNCHANGED << unit, cfg, calm, store, running, runs, env_open, walk,
                    backups, emitted, walk_hist, backup_outcome, sched_hist >>

\* a writer that leaves the file where it is when the write fails
WriteCsvWithoutBackup ==
    /\ pc = "write"
    /\ LET out == CsvOutput(ledger.exists, new_entries)
       IN  \/ /\ ledger' = [exists |-> TRUE, rows |-> ledger.rows \o out]
              /\ write_outcome' = "ok"
              /\ written' = Append(written, new_entries)
              /\ write_ret' = ReturnOfSuccess
              /\ pc' = "close"
              /\ UNCHANGED << events, write_failures >>
           \/ /\ events < MaxEvents
              /\ events' = events + 1
              /\ \E k \in (-1)..Len(out) :
                    ledger' = IF k = -1 THEN ledger
                              ELSE [exists |-> TRUE,
                                    rows |-> ledger.rows \o SubSeq(out, 1, k)]
              /\ write_outcome' = "failed"
              /\ write_failures' = write_failures + 1
              /\ pc' = "close"
              /\ UNCHANGED << written, write_ret >>
    /\ UNCHANGED << unit, cfg, calm, store, processed_hashes, running, runs, env_open, walk,
                    backups, emitted, walk_hist, backup_outcome, sched_hist >>

\* write_csv lines 39-57, and line 59 when an exception is raised: either
\* before the file is opened (k = -1) or with k lines of the output on disk
WriteCsv ==
    /\ pc = "write"
    /\ LET out == CsvOutput(ledger.exists, new_entries)
       IN  \/ /\ ledger' = [exists |-> TRUE, rows |-> ledger.rows \o out]
              /\ write_outcome' = "ok"
              /\ written' = Append(written, new_entries)
              /\ write_ret' = ReturnOfSuccess
              /\ pc' = "close"
              /\ UNCHANGED << events, write_failures >>
           \/ /\ events < MaxEvents
              /\ events' = events + 1
              /\ \E k \in (-1)..Len(out) :
                    ledger' = IF k = -1 THEN ledger
                              ELSE [exists |-> TRUE,
                                    rows |-> ledger.rows \o SubSeq(out, 1, k)]
              /\ write_outcome' = "failed"
              /\ write_failures' = write_failures + 1
              /\ pc' = "backup"
              /\ UNCHANGED << written, write_ret >>
    /\ UNCHANGED << unit, cfg, calm, store, processed_hashes, running, runs, env_open, walk,
                    backups, emitted, walk_hist, backup_outcome, sched_hist >>

\* create_backup, called from line 61; then write_csv returns (None)
CreateBackup ==
    /\ pc = "backup"
    /\ \/ /\ ledger.exists
          /\ backups' = Append(backups, [file |-> BackupFile(runs), rows |-> ledger.rows])
          /\ ledger' = LedgerAfterRename
          /\ backup_outcome' = "renamed"
       \/ \* os.rename (or os.makedirs) raises: caught at line 80
          /\ ledger.exists
          /\ backup_outcome' = "failed"
          /\ UNCHANGED << ledger, backups >>
       \/ /\ ~ledger.exists
          /\ backup_outcome' = "nofile"
          /\ UNCHANGED << ledger, backups >>
    /\ write_ret' = "None"
    /\ pc' = "close"
    /\ UNCHANGED << unit, cfg, calm, store, processed_hashes, running, runs, env_open, walk,
                    events, emitted, walk_hist, write_outcome, written,
                    write_failures, sched_hist >>

(* ------------------------ run and scheduler --------------------------- *)
\* a loop test that also gives up after a cycle in which something failed
MainLoopTestGivesUp ==
    /\ pc = "loop"
    /\ \/ /\ running /\ run_fault = "none" /\ write_outcome # "failed"
          /\ runs = 0 \/ events < MaxEvents
          /\ events' = IF runs = 0 THEN events ELSE events + 1
          /\ runs' = runs + 1
          /\ pc' = "open"
          /\ write_outcome' = "none"
          /\ backup_outcome' = "none"
          /\ abort' = << >>
          /\ run_fault' = "none"
          /\ waited' = 0
       \/ /\ ~running \/ run_fault # "none" \/ write_outcome = "failed"
          /\ pc' = "exited"
          /\ UNCHANGED << runs, events, write_outcome, backup_outcome, abort,
                          sched_hist >>
    /\ UNCHANGED << unit, cfg, calm, store, processed_hashes, running, env_open, walk, files,
                    emitted, last_inc, fails, slept, dup_skips, ended, written,
                    write_failures >>

\* main_loop line 186: the test of "while self.running"
MainLoopTest ==
    /\ pc = "loop"
    /\ \/ /\ running
          /\ runs = 0 \/ events < MaxEvents
          /\ events' = IF runs = 0 THEN events ELSE events + 1
          /\ runs' = runs + 1
          /\ pc' = "open"
          /\ write_outcome' = "none"
          /\ backup_outcome' = "none"
          /\ abort' = << >>
          /\ run_fault' = "none"
          /\ waited' = 0
       \/ /\ ~running
          /\ pc' = "exited"
          /\ UNCHANGED << runs, events, write_outcome, backup_outcome, abort,
                          sched_hist >>
    /\ UNCHANGED << unit, cfg, calm, store, processed_hashes, running, env_open, walk, files,
                    emitted, last_inc, fails, slept, dup_skips, ended, written,
                    write_failures >>

\* run_extraction lines 165-173: open the environment, begin the transaction
RunOpen ==
    /\ pc = "open"
    /\ \/ /\ env_open' = TRUE
          /\ pc' = "last"
          /\ UNCHANGED << events, run_fault, calm >>
       \/ \* lmdb.open raises lmdb.Error (the path cannot be opened): caught
          \* at line 177, no env to close (line 182)
          /\ events < MaxEvents
          /\ events' = events + 1
          /\ env_open' = FALSE
          /\ pc' = "sleep"
          /\ run_fault' = "open"
          /\ calm' = (IF running THEN 0 ELSE -1)
       \/ \* env.begin or env.open_db raises: the finally closes env
          /\ events < MaxEvents
          /\ events' = events + 1
          /\ env_open' = TRUE
          /\ pc' = "close"
          /\ run_fault' = "lmdb"
          /\ calm' = -1
    /\ UNCHANGED << unit, cfg, store, processed_hashes, running, runs, walk, files,
                    emitted, walk_hist, write_hist, waited >>

\* an unexpected exception that nothing catches: the process dies
UnexpectedExceptionEscapes ==
    /\ \/ pc \in {"open", "last", "prev"}
       \/ pc = "while" /\ WalkGuard
    /\ events < MaxEvents
    /\ events' = events + 1
    /\ run_fault' = "unexpected"
    /\ pc' = "exited"
    /\ cur' = 0
    /\ new_entries' = << >>
    /\ positions' = << >>
    /\ block_count' = 0
    /\ retries' = 0
    /\ last_inc' = "none"
    /\ fails' = NoFails
    /\ slept' = << >>
    /\ dup_skips' = 0
    /\ calm' = -1
    /\ UNCHANGED << unit, cfg, store, processed_hashes, running, runs, env_open, files,
                    emitted, abort, ended, write_hist, waited >>

\* run_extraction lines 179-180: an exception that is no lmdb.Error, raised
\* by lmdb.open (a bad CONFIG value) or inside process_blocks, is caught in
\* run_extraction; the entries collected so far are lost with process_blocks'
\* frame
UnexpectedException ==
    /\ \/ pc \in {"open", "last", "prev"}
       \/ pc = "while" /\ WalkGuard
    /\ events < MaxEvents
    /\ events' = events + 1
    /\ run_fault' = "unexpected"
    /\ pc' = IF pc = "open" THEN "sleep" ELSE "close"
    /\ cur' = 0
    /\ new_entries' = << >>
    /\ positions' = << >>
    /\ block_count' = 0
    /\ retries' = 0
    /\ last_inc' = "none"
    /\ fails' = NoFails
    /\ slept' = << >>
    /\ dup_skips' = 0
    /\ calm' = (IF pc = "open" /\ running THEN 0 ELSE -1)
    /\ UNCHANGED << unit, cfg, store, processed_hashes, running, runs, env_open, files,
                    emitted, abort, ended, write_hist, waited >>

\* a finally that closes the environment only after a run without a fault
RunCloseSkippedAfterFault ==
    /\ pc = "close"
    /\ env_open' = (run_fault # "none")
    /\ pc' = "sleep"
    /\ calm' = (IF ~running THEN -1 ELSE IF calm = -1 THEN 0 ELSE 1)
    /\ UNCHANGED << unit, cfg, store, processed_hashes, running, runs, walk, files,
                    events, emitted, walk_hist, write_hist, sched_hist >>

\* run_extraction lines 181-183
RunClose ==
    /\ pc = "close"
    /\ env_open' = FALSE
    /\ pc' = "sleep"
    /\ calm' = (IF ~running THEN -1 ELSE IF calm = -1 THEN 0 ELSE 1)
    /\ UNCHANGED << unit, cfg, store, processed_hashes, running, runs, walk, files,
                    events, emitted, walk_hist, write_hist, sched_hist >>

\* main_loop line 193: time.sleep(update_interval) returns, after the whole
\* interval (a signal whose handler returns does not end time.sleep early)
Sleep ==
    /\ pc = "sleep"
    /\ pc' = "loop"
    /\ waited' = update_interval
    /\ UNCHANGED << unit, cfg, calm, store, processed_hashes, running, runs, env_open, walk,
                    files, events, emitted, walk_hist, write_hist, run_fault >>

\* main_loop lines 190-192 and 194-195: an exception raised after
\* run_extraction has returned (a print that fails) is caught at line 194
MainLoopExcept ==
    /\ pc = "sleep"
    /\ events < MaxEvents
    /\ events' = events + 1
    /\ run_fault' = "escaped"
    /\ pc' = "cooldown"
    /\ UNCHANGED << unit, cfg, calm, store, processed_hashes, running, runs, env_open, walk,
                    files, emitted, walk_hist, write_hist, waited >>

\* main_loop line 196: time.sleep(60) returns
CooldownSleep ==
    /\ pc = "cooldown"
    /\ pc' = "loop"
    /\ waited' = Cooldown
    /\ UNCHANGED << unit, cfg, calm, store, processed_hashes, running, runs, env_open, walk,
                    files, events, emitted, walk_hist, write_hist, run_fault >>

\* the node appends a block to the store while the extractor sleeps (the
\* read transaction of a run sees the store as it was when the run began)
StoreAppend ==
    /\ pc = "sleep"
    /\ Len(store) < MaxStore
    /\ events + 1 < MaxEvents
    /\ events' = events + 1
    /\ \E b \in BlockIds : store' = Append(store, b)
    /\ calm' = (IF calm = 1 THEN 0 ELSE calm)
    /\ UNCHANGED << unit, cfg, processed_hashes, running, pc, runs, env_open, walk,
                    files, emitted, walk_hist, write_hist, sched_hist >>

\* a handler that also closes the environment
graceful_shutdown_closes_store ==
    /\ pc # "exited"
    /\ running
    /\ running' = FALSE
    /\ env_open' = FALSE
    /\ calm' = -1
    /\ UNCHANGED << unit, cfg, store, processed_hashes, pc, runs, walk, files,
                    events, emitted, walk_hist, write_hist, sched_hist >>

\* graceful_shutdown: SIGINT or SIGTERM arrives
graceful_shutdown ==
    /\ pc # "exited"
    /\ running
    /\ running' = FALSE
    /\ calm' = -1
    /\ UNCHANGED << unit, cfg, store, processed_hashes, pc, runs, env_open, walk, files,
                    events, emitted, walk_hist, write_hist, sched_hist >>

Next ==
    \/ MainLoopTest
    \/ RunOpen
    \/ CursorLast
    \/ WalkIter
    \/ WalkExit
    \/ WalkReturn
    \/ WalkPrev
    \/ WriteCsv
    \/ CreateBackup
    \/ RunClose
    \/ UnexpectedException
    \/ Sleep
    \/ MainLoopExcept
    \/ CooldownSleep
    \/ StoreAppend
    \/ graceful_shutdown

Spec == Init /\ [][Next]_vars

\* the steps of the extractor itself: everything but the node's appends and
\* the arrival of a signal
Program ==
    \/ MainLoopTest
    \/ RunOpen
    \/ CursorLast
    \/ WalkIter
    \/ WalkExit
    \/ WalkReturn
    \/ WalkPrev
    \/ WriteCsv
    \/ CreateBackup
    \/ UnexpectedException
    \/ RunClose
    \/ Sleep
    \/ MainLoopExcept
    \/ CooldownSleep

\* the extractor is one thread that keeps executing: every call it makes
\* (a store access, a file operation, a time.sleep of a finite duration)
\* returns or raises, so while a step of the program is possible one is taken
FairSpec == Spec /\ WF_vars(Program)

(* ----------------------- the functions taken alone -------------------- *)
\* the process before main_loop is entered, for the variables that the
\* functions taken alone do not use
Idle ==
    /\ max_blocks = 0
    /\ store = << >>
    /\ running = TRUE
    /\ runs = 0
    /\ env_open = FALSE
    /\ cur = 0
    /\ new_entries = << >>
    /\ block_count = 0
    /\ retries = 0
    /\ backups = << >>
    /\ write_ret = "None"
    /\ events = 0
    /\ last_inc = "none"
    /\ fails = NoFails
    /\ slept = << >>
    /\ abort = << >>
    /\ dup_skips = 0
    /\ positions = << >>
    /\ ended = "none"
    /\ write_outcome = "none"
    /\ backup_outcome = "none"
    /\ written = << >>
    /\ write_failures = 0
    /\ run_fault = "none"
    /\ waited = 0
    /\ calm = 0

idle == << max_blocks, store, running, runs, env_open, cur, new_entries, positions,
          block_count, retries, backups, write_ret, events, walk_hist,
          write_hist, sched_hist, calm >>

\* The records handed to parse_block: every length up to MaxLen, mapped and
\* unmapped major versions, the nonce at any of the table's offsets (where the
\* record is long enough to hold it).  TLC's integers are 32-bit signed, so
\* the largest nonce tried is 2^31 - 1.
DecoderMajors == 0..MaxMajor \cup {9, 255}
DecoderNonces == {1, 6699, 2147483647}
DecoderInputs ==
    {MkBlock(major, 7, 70000, off, nonce, len) :
        major \in DecoderMajors, off \in {43, 47, 51, 55},
        nonce \in DecoderNonces, len \in 0..MaxLen}

DecoderInit ==
    /\ Idle
    /\ hash_window = 0
    /\ processed_hashes = << >>
    /\ emitted = << >>
    /\ ledger = AbsentFile
    /\ csv_file = [exists |-> FALSE, lines |-> << >>]
    /\ existing = {}
    /\ loads = 0
    /\ writers = NoWriters
    /\ pc = "parse"
    /\ block_data \in DecoderInputs
    /\ parsed_block = << >>

\* a call parse_block(block_data)
ParseBlock ==
    /\ pc = "parse"
    /\ parsed_block' = parse_block(block_data)
    /\ pc' = "parsed"
    /\ UNCHANGED << idle, cfg, processed_hashes, emitted, ledger, block_data,
                    csv_file, existing, loads, writers >>

DecoderSpec == DecoderInit /\ [][ParseBlock]_vars

\* the window of a new process, of any capacity up to MaxWindow
WindowInit ==
    /\ Idle
    /\ hash_window \in 0..MaxWindow
    /\ processed_hashes = << >>
    /\ emitted = << >>
    /\ ledger = AbsentFile
    /\ block_data = << >>
    /\ parsed_block = << >>
    /\ csv_file = [exists |-> FALSE, lines |-> << >>]
    /\ existing = {}
    /\ loads = 0
    /\ writers = NoWriters
    /\ pc = "window"

\* lines 132 and 149: a hash that is not in the window is appended to it
WindowInsert ==
    /\ pc = "window"
    /\ Len(emitted) < MaxInserts
    /\ \E h \in 1..MaxHashes :
          /\ ~InWindow(h, processed_hashes)
          /\ processed_hashes' = deque_append(processed_hashes, h, hash_window)
          /\ emitted' = Append(emitted, h)
    /\ UNCHANGED << idle, cfg, pc, ledger, unit >>

WindowSpec == WindowInit /\ [][WindowInsert]_vars

\* The ledger files handed to load_existing_nonces: no file, an empty file,
\* and under the writer's header or a foreign one up to MaxRows lines, each
\* a line the writer wrote, such a line with a nonce that is not a decimal
\* number, such a line cut short after its first field, or a blank line.
LoaderEntry(nonce) ==
    CsvLine(MkEntry(parse_block(MkBlock(1, 7, 70000, 43, nonce, MaxLen))[1], 2, 1))
LoaderLines ==
    {LoaderEntry(6699), LoaderEntry(300),
     [LoaderEntry(6699) EXCEPT ![2] = hex(6699)],
     [LoaderEntry(6699) EXCEPT ![2] = << "sup2" >>],
     SubSeq(LoaderEntry(6699), 1, 1),
     << >>}
LoaderHeaders == {fieldnames, << "timestamp", "block_hash" >>}
LoaderFiles ==
    {[exists |-> FALSE, lines |-> << >>], [exists |-> TRUE, lines |-> << >>]}
    \cup {[exists |-> TRUE, lines |-> << h >> \o rows] :
              h \in LoaderHeaders,
              rows \in SeqsUpTo(LoaderLines, MaxRows)}

LoaderInit ==
    /\ Idle
    /\ hash_window = 0
    /\ processed_hashes = << >>
    /\ emitted = << >>
    /\ ledger = AbsentFile
    /\ block_data = << >>
    /\ parsed_block = << >>
    /\ csv_file \in LoaderFiles
    /\ existing = {}
    /\ loads = 0
    /\ writers = NoWriters
    /\ pc = "load"

\* a call load_existing_nonces() with csv_file at CONFIG['csv_output']
LoadExistingNonces ==
    /\ pc = "load"
    /\ existing' = load_existing_nonces(csv_file)
    /\ loads' = loads + 1
    /\ pc' = "loaded"
    /\ UNCHANGED << idle, cfg, processed_hashes, emitted, ledger, block_data,
                    parsed_block, csv_file, writers >>

LoaderSpec == LoaderInit /\ [][LoadExistingNonces]_vars

\* Two instances of the extractor, each inside write_csv with a batch of its
\* own, against the same ledger path, which does not exist yet.  The file is
\* taken row by row: a file position counts rows, and what an instance has
\* written into its file object reaches the file one row at a time, at any
\* moment up to the end of the with block.
Writers == {1, 2}
WriterNonces == {300, 6699}
WriterEntry(i, nonce) ==
    MkEntry(parse_block(MkBlock(1, 7, 70000, 43, nonce, MaxLen))[1], nonce, i)
WriterBatch(i, nonces) == [k \in 1..Len(nonces) |-> WriterEntry(i, nonces[k])]
WriterBatches(i) ==
    {WriterBatch(i, nonces) : nonces \in SeqsUpTo(WriterNonces, MaxBatch) \ {<< >>}}

\* the rows a write beyond the end of the file leaves before it
HoleRow == [header |-> FALSE, cells |-> << >>]
RECURSIVE Holes(_)
Holes(n) == IF n <= 0 THEN << >> ELSE << HoleRow >> \o Holes(n - 1)

\* a write of one row through a file opened with mode 'w' at position pos,
\* or with mode 'a' (O_APPEND: at the end of the file, wherever it is now)
WriteAt(rows, file_exists, pos, row) ==
    IF file_exists THEN Append(rows, row)
    ELSE IF pos < Len(rows) THEN [rows EXCEPT ![pos + 1] = row]
    ELSE rows \o Holes(pos - Len(rows)) \o << row >>

RaceInit ==
    /\ Idle
    /\ hash_window = 0
    /\ processed_hashes = << >>
    /\ emitted = << >>
    /\ ledger = AbsentFile
    /\ block_data = << >>
    /\ parsed_block = << >>
    /\ csv_file = [exists |-> FALSE, lines |-> << >>]
    /\ existing = {}
    /\ loads = 0
    /\ pc = "race"
    /\ \E b1 \in WriterBatches(1), b2 \in WriterBatches(2) :
          writers = [i \in Writers |->
                        [pc |-> "exists", file_exists |-> FALSE, pos |-> 0,
                         entries |-> IF i = 1 THEN b1 ELSE b2, out |-> << >>]]

race_frame == << idle, cfg, processed_hashes, emitted, pc, block_data, parsed_block,
                csv_file, existing, loads >>

\* write_csv lines 40-44 in instance i: file_exists and the mode
WriterExists(i) ==
    /\ writers[i].pc = "exists"
    /\ writers' = [writers EXCEPT ![i].file_exists = ledger.exists,
                                  ![i].pc = "open"]
    /\ UNCHANGED << race_frame, ledger >>

\* an open that never truncates, starts at the end of the file and writes a
\* header only into an empty file
WriterOpenKeepsTheFile(i) ==
    /\ writers[i].pc = "open"
    /\ ledger' = [exists |-> TRUE, rows |-> ledger.rows]
    /\ writers' = [writers EXCEPT
                      ![i].out = CsvOutput(ledger.rows # << >>, writers[i].entries),
                      ![i].pos = Len(ledger.rows),
                      ![i].pc = "write"]
    /\ UNCHANGED race_frame

\* write_csv lines 46-55 in instance i: open() with the mode chosen at line
\* 44 ('w' creates or truncates the file), then writeheader and writerows
\* fill the file object
WriterOpen(i) ==
    /\ writers[i].pc = "open"
    /\ ledger' = [exists |-> TRUE,
                  rows |-> IF writers[i].file_exists THEN ledger.rows ELSE << >>]
    /\ writers' = [writers EXCEPT
                      ![i].out = CsvOutput(writers[i].file_exists, writers[i].entries),
                      ![i].pos = 0,
                      ![i].pc = "write"]
    /\ UNCHANGED race_frame

\* the next row of instance i reaches the file; after the last one the with
\* block of line 46 is left and write_csv returns
WriterFlush(i) ==
    /\ writers[i].pc = "write"
    /\ ledger' = [ledger EXCEPT !.rows = WriteAt(ledger.rows, writers[i].file_exists,
                                                 writers[i].pos, Head(writers[i].out))]
    /\ writers' = [writers EXCEPT
                      ![i].out = Tail(writers[i].out),
                      ![i].pos = writers[i].pos + 1,
                      ![i].pc = IF Tail(writers[i].out) = << >> THEN "done" ELSE "write"]
    /\ UNCHANGED race_frame

RaceNext == \E i \in Writers : WriterExists(i) \/ WriterOpen(i) \/ WriterFlush(i)

RaceSpec == RaceInit /\ [][RaceNext]_vars

(* ============================ properties ============================== *)
Hashes(entries) == [i \in 1..Len(entries) |-> entries[i].block_hash]
Distinct(q) == \A i, j \in 1..Len(q) : i # j => q[i] # q[j]
LastN(q, n) == SubSeq(q, Len(q) - Min(n, Len(q)) + 1, Len(q))

\* C1: within one run, whatever the store holds and whatever hash_window and
\* max_blocks are, no two entries of new_entries (the rows the run writes)
\* share a block_hash.
C1_NoDuplicateHashInRun == Distinct(Hashes(new_entries))

\* C2: over the life of the process the window never holds more than
\* hash_window hashes nor the same hash twice; it is the last hash_window
\* emitted hashes, so an entry is emitted only if its hash is not among them:
\* any hash_window + 1 consecutive emitted hashes are pairwise distinct.
C2_WindowBoundedAndDuplicateFree ==
    /\ Len(processed_hashes) <= hash_window
    /\ Distinct(processed_hashes)
    /\ processed_hashes = LastN(emitted, hash_window)
    /\ \A i, j \in 1..Len(emitted) :
          (i < j /\ j - i <= hash_window) => emitted[i] # emitted[j]

\* a full window has evicted a hash, and that hash was emitted again later
C2_Witness ==
    /\ hash_window >= 1
    /\ Len(processed_hashes) = hash_window
    /\ Len(emitted) > hash_window
    /\ \E i, j \in 1..Len(emitted) : i < j /\ emitted[i] = emitted[j]

\* C3: the first run of a fresh process (ledger absent) over n well-formed
\* records with pairwise distinct hashes, with hash_window >= max_blocks, no
\* store or ledger error and no cancellation.
C3_CleanFirstRun ==
    /\ runs = 1
    /\ pc = "close"
    /\ events = 0
    /\ running
    /\ hash_window >= max_blocks
    /\ Distinct(store)
    /\ \A i \in 1..Len(store) : ParsedOf[store[i]] # << >>

\* the entries of the Min(n, max_blocks) newest records, newest first
C3_NewestEntries ==
    /\ Len(new_entries) = Min(Len(store), max_blocks)
    /\ \A i \in 1..Len(new_entries) :
          LET b == store[Len(store) + 1 - i]
          IN  /\ new_entries[i].block_hash = HashOf[b]
              /\ new_entries[i].nonce = ParsedOf[b][1].nonce

\* C3 as stated: such a run emits exactly the Min(n, max_blocks) newest
\* records, newest first, and the ledger then holds one header row plus
\* those rows.
C3_Original_HeaderPlusRows ==
    C3_CleanFirstRun =>
        /\ C3_NewestEntries
        /\ ledger = [exists |-> TRUE, rows |-> << HeaderRow >> \o EntryRows(new_entries)]

\* C3 amended: the same, except that a run which emits nothing (n = 0 or
\* max_blocks = 0) writes nothing: the ledger file is not created at all.
C3_NewestEmittedAndWritten ==
    C3_CleanFirstRun =>
        /\ C3_NewestEntries
        /\ ledger = IF new_entries = << >> THEN AbsentFile
                    ELSE [exists |-> TRUE,
                          rows |-> << HeaderRow >> \o EntryRows(new_entries)]

\* a clean first run that stopped at max_blocks with an older record left
C3_Witness ==
    /\ C3_CleanFirstRun
    /\ max_blocks = 1
    /\ Len(store) = 2
    /\ Len(ledger.rows) = 2

RECURSIVE Flatten(_)
Flatten(batches) ==
    IF batches = << >> THEN << >>
    ELSE EntryRows(Head(batches)) \o Flatten(Tail(batches))

\* C4: starting from an absent ledger, as long as every write_csv call has
\* succeeded the ledger is one header row followed by the rows of the batches
\* in call order, each batch in the order supplied; no second header.
C4_HeaderOnceThenBatchesInOrder ==
    write_failures = 0 =>
        ledger = IF written = << >> THEN AbsentFile
                 ELSE [exists |-> TRUE, rows |-> << HeaderRow >> \o Flatten(written)]

\* two batches have been written, the second of them with two rows
C4_Witness ==
    /\ write_failures = 0
    /\ Len(written) = 2
    /\ Len(written[2]) = 2
    /\ Len(ledger.rows) >= 4

\* the step of create_backup on a ledger file that exists
C5_BackupStep == pc = "backup" /\ ledger.exists /\ pc' = "close"
C5_Renamed ==
    /\ ledger' = AbsentFile
    /\ backups' = Append(backups, [file |-> BackupFile(runs), rows |-> ledger.rows])
    /\ BackupFile(runs).dir = csv_output.dir

\* C5 as stated: when write_csv has failed and the ledger file exists, the
\* file is renamed to a timestamp-suffixed backup in the ledger's directory
\* and the call does not write the batch again.
C5_Original_AlwaysRenamed == [][C5_BackupStep => C5_Renamed]_vars

\* C5 amended: the rename is attempted once.  When it succeeds the ledger is
\* moved to the backup; when it raises, the error is swallowed and the ledger
\* file stays in place as the failed write left it.  Either way the call
\* ends without writing the batch again.
C5_RenamedOrLeftInPlace ==
    [][C5_BackupStep =>
          \/ backup_outcome' = "renamed" /\ C5_Renamed
          \/ backup_outcome' = "failed" /\ UNCHANGED << ledger, backups >>]_vars

\* a failed write left lines on disk and they were moved to a backup
C5_Witness ==
    /\ write_outcome = "failed"
    /\ backup_outcome = "renamed"
    /\ ~ledger.exists
    /\ Len(backups) = 1
    /\ Len(backups[1].rows) >= 2

\* C6: a failed write is reported to the caller: what write_csv returns to
\* run_extraction after a failed batch differs from what it returns after a
\* batch it appended.
C6_FailedWriteReported ==
    (pc = "close" /\ write_outcome = "failed") => write_ret # ReturnOfSuccess

\* C7: when store errors exhaust the retries the walk ends there (no further
\* store access), process_blocks returns exactly the entries held before the
\* failing access, run_extraction hands them to write_csv, a successful write
\* leaves them at the end of the ledger, and main_loop goes on: it exits only
\* when running is false.
C7_PartialBatchKeptAndWritten ==
    /\ (abort # << >>) => pc # "prev"
    /\ (abort # << >> /\ pc \in {"while", "ret", "write", "backup"})
          => new_entries = abort[1]
    /\ (abort # << >> /\ pc \in {"write", "backup"}) => abort[1] # << >>
    /\ (abort # << >> /\ abort[1] # << >> /\ pc \in {"close", "sleep", "loop"})
          => write_outcome # "none"
    /\ (abort # << >> /\ write_outcome = "ok")
          => LastN(ledger.rows, Len(abort[1])) = EntryRows(abort[1])
    /\ pc = "exited" => ~running

\* the retries were exhausted by store errors after an entry was emitted; the
\* entry is in the ledger and the scheduler is back at its loop test
C7_Witness ==
    /\ abort # << >>
    /\ abort[1] # << >>
    /\ write_outcome = "ok"
    /\ pc = "loop"
    /\ running
    /\ Len(ledger.rows) = 1 + Len(abort[1])

AccessKinds == {"value", "prev"}

\* C8: with a maximum of 3 attempts a failing store access (cursor.value or
\* cursor.prev) is attempted again until it succeeds or has failed 3 times:
\* when the walk has ended on its retry counter while an access was still
\* failing, that access has been attempted exactly 3 times.
C8_FailingAccessGetsThreeAttempts ==
    \A kind \in AccessKinds :
        (pc = "ret" /\ retries >= RetryCeiling /\ fails[kind] > 0)
            => fails[kind] = 3

\* C9: when the walk gives up on a store access that failed every time (the
\* retry counter holds nothing but that access's failures), the number of
\* attempts made is CONFIG['max_retries'].
C9_AttemptsEqualMaxRetries ==
    \A kind \in AccessKinds :
        (pc = "ret" /\ last_inc = "err" /\ retries >= RetryCeiling
            /\ fails[kind] = retries)
            => fails[kind] = max_retries

\* C10: the backoff slept after the k-th consecutive failure of a store access
\* is 2^k time units, k counting that access's failures only (from 1),
\* whatever duplicate skips or other accesses' failures came before.
C10_BackoffIsTwoToTheK ==
    slept # << >> => slept[1].delay = 2 ^ slept[1].k

\* the store errors counted in retries
StoreErrorsCounted == retries - dup_skips

\* C11: whenever process_blocks returns, (a) block_count equals max_blocks,
\* or (b) cursor.prev() found no older record, or (c) three consecutive
\* duplicate skips occurred, or (d) running is false, or the store errors
\* exhausted the retries (three of them); and it never returns more than
\* max_blocks entries.
C11_WalkEndsForAStatedReason ==
    pc = "ret" =>
        /\ \/ block_count = max_blocks
           \/ ended = "break"
           \/ dup_skips >= RetryCeiling
           \/ ~running
           \/ StoreErrorsCounted >= RetryCeiling
        /\ Len(new_entries) <= max_blocks

\* the walk has ended on its retry counter, which holds two duplicate skips
\* and one store error
C11_MixedEnd ==
    /\ pc = "ret"
    /\ ended = "guard"
    /\ running
    /\ block_count < max_blocks
    /\ dup_skips = 2
    /\ StoreErrorsCounted = 1

\* a pass of the loop that reads the record under the cursor and skips it as
\* a duplicate
C12_DuplicateSkipStep == pc = "while" /\ dup_skips' = dup_skips + 1

\* C12: the walk starts at the newest record and moves the cursor one record
\* toward the older ones on every pass that examines a record, a duplicate
\* skip included; a duplicate skip counts in the skip budget and not in
\* block_count, and one duplicate does not keep the older records behind it
\* from being examined in the same run.
C12_CursorMovesOnEveryExaminedRecord ==
    [][/\ (pc = "last" /\ pc' = "while") => cur' = Len(store)
       /\ C12_DuplicateSkipStep =>
             /\ retries' = retries + 1
             /\ block_count' = block_count
             /\ cur > 1 => cur' = cur - 1]_vars

\* the walk ended on three skips of one duplicate with an older record, never
\* emitted, still behind it
C12_OlderRecordNeverExamined ==
    /\ pc = "ret"
    /\ dup_skips = RetryCeiling
    /\ cur = 2
    /\ \A i \in 1..Len(emitted) : emitted[i] # HashOf[store[1]]

\* C13: once running is false, the walk begins no further pass of its loop
\* (it leaves the loop at the next test of line 127) and main_loop begins no
\* further run; the process then reaches the end of main_loop.
C13_CancellationStopsWalkAndScheduler ==
    /\ [][~running => /\ runs' = runs
                      /\ pc = "while" => pc' = "ret"]_vars
    /\ (~running ~> pc = "exited")

\* the walk has ended on the flag alone: it was positioned on a record, below
\* max_blocks and with retries left
C13_Witness ==
    /\ pc = "ret"
    /\ ended = "guard"
    /\ ~running
    /\ cur >= 1
    /\ new_entries # << >>
    /\ block_count < max_blocks
    /\ retries < RetryCeiling

\* C14: the sleep between runs is ended by the cancellation: when running is
\* false before or during the time.sleep of line 193 (set during the run that
\* just finished included), main_loop does not wait out update_interval
\* before it leaves its loop.
C14_SleepIsInterruptible ==
    [][(pc = "sleep" /\ ~running /\ pc' = "loop") => waited' < update_interval]_vars

\* main_loop has ended right after a sleep of the whole interval, in a cycle
\* whose run wrote its entries
C14_WaitedOutTheInterval ==
    /\ pc = "exited"
    /\ waited = update_interval
    /\ write_outcome = "ok"

\* C15: running is a flag with two values: true at construction, made false
\* only by graceful_shutdown (the handler of SIGINT and SIGTERM), and never
\* made true again.
C15_FlagFalseOnlyBySignalAndForGood ==
    /\ running = TRUE
    /\ [][/\ running' \in BOOLEAN
          /\ running' # running => (running /\ ~running' /\ graceful_shutdown)]_vars

\* the flag was cleared during the first run, after an entry was emitted, and
\* is still false at the end of main_loop
C15_Witness ==
    /\ ~running
    /\ pc = "exited"
    /\ runs = 1
    /\ emitted # << >>

\* C16: main_loop returns only when running has been made false by a signal:
\* no store error, decode error, write error or unexpected exception in a
\* run, and no outcome of a run (an empty one included), ends the loop while
\* running is true.
C16_ExitOnlyWhenFlagCleared == running => pc # "exited"

\* back at the loop test with running true after a cycle whose run failed
\* with an unexpected exception, an earlier write having failed as well
C16_Witness ==
    /\ running
    /\ pc = "loop"
    /\ runs >= 2
    /\ run_fault = "unexpected"
    /\ write_failures >= 1

\* a pass of the loop over a record that is a duplicate or cannot be decoded
C17_RecordErrorStep ==
    /\ pc = "while"
    /\ WalkGuard
    /\ running' = running
    /\ events' = events
    /\ \/ InWindow(HashOf[CursorValue], processed_hashes)
       \/ ParsedOf[CursorValue] = << >>

\* a step in which a store access, a ledger write or anything else in the
\* cycle raises
C17_RunErrorStep == events' = events + 1 /\ store' = store /\ runs' = runs

\* C17: a corrupt header or a duplicate never leaves process_blocks (the walk
\* goes on to its next test or cursor step), and a store open or read
\* failure, a ledger write failure or an unexpected exception never leaves
\* main_loop: each is taken up by a handler inside the cycle, the cycle ends
\* in its sleep, the sleep leads back to the loop test, and with running
\* true the loop test begins the next run.
C17_ErrorsStayInsideTheCycle ==
    [][/\ C17_RecordErrorStep => pc' \in {"while", "prev"}
       /\ C17_RunErrorStep => pc' \in {"while", "backup", "close", "sleep", "cooldown"}
       /\ (pc \in {"sleep", "cooldown"} /\ pc' \notin {"sleep", "cooldown"})
             => pc' = "loop"
       /\ (pc = "loop" /\ running /\ pc' # pc) => (pc' = "open" /\ runs' = runs + 1)]_vars

\* a third run has begun with running true, a ledger write having failed in
\* an earlier cycle
C17_Witness ==
    /\ pc = "open"
    /\ running
    /\ runs = 3
    /\ write_failures = 1
    /\ write_outcome = "none"

\* C18: an unexpected failure during a run (an exception that is neither a
\* store error nor a decode error) is followed by the fixed cooldown of 60 s,
\* not by update_interval, before the next run is attempted.
C18_UnexpectedFailureThenCooldown ==
    (pc = "loop" /\ run_fault = "unexpected") => waited = Cooldown

\* the cooldown has been slept, after an exception raised once run_extraction
\* had returned
C18_CooldownReached ==
    /\ pc = "loop"
    /\ run_fault = "escaped"
    /\ waited = Cooldown

\* C19: a store path that cannot be opened is fatal at startup: when
\* lmdb.open fails in the first cycle the process has terminated; it is not
\* in the polling loop (asleep until the next run, or at the loop test).
C19_UnopenableStoreIsFatal ==
    (runs = 1 /\ run_fault = "open") => pc = "exited"

\* the store could not be opened in the second run either, nothing having
\* been emitted so far, and the process sleeps until the third
C19_FailsAgainOnLaterRun ==
    /\ runs = 2
    /\ run_fault = "open"
    /\ pc = "sleep"
    /\ running
    /\ emitted = << >>

\* a pass of the loop over a record that is not in the window and whose header
\* parse_block cannot decode
C20_CorruptRecordStep ==
    /\ pc = "while"
    /\ WalkGuard
    /\ running' = running
    /\ events' = events
    /\ ~InWindow(HashOf[CursorValue], processed_hashes)
    /\ ParsedOf[CursorValue] = << >>

\* C20: a record whose header cannot be decoded adds no entry, is not put
\* in processed_hashes, and leaves retries (the budget of duplicate skips and
\* store errors) as it is; the failure does not make the walk read the record
\* again: the next step is cursor.prev(), which moves to the next older
\* record when there is one.
C20_CorruptRecordSkipped ==
    [][/\ C20_CorruptRecordStep =>
             /\ pc' = "prev"
             /\ UNCHANGED << new_entries, processed_hashes, emitted, block_count,
                             retries, dup_skips, ledger >>
       /\ (pc = "prev" /\ cur > 1 /\ events' = events /\ pc' # pc)
             => (pc' = "while" /\ cur' = cur - 1)]_vars

\* the newest record could not be decoded and the walk has gone on to emit
\* the older one, with retries untouched
C20_Witness ==
    /\ runs = 1
    /\ events = 0
    /\ pc = "prev"
    /\ Len(store) = 2
    /\ cur = 1
    /\ ParsedOf[store[2]] = << >>
    /\ Hashes(new_entries) = << HashOf[store[1]] >>
    /\ processed_hashes = << HashOf[store[1]] >>
    /\ retries = 0

\* the offset the table of lines 23-25 gives for the record's major version
C21_Offset ==
    CASE block_data[1] = 1 -> 43
      [] block_data[1] = 2 -> 47
      [] block_data[1] = 3 -> 51
      [] block_data[1] = 4 -> 55
      [] OTHER -> 43

\* C21: for every record long enough to hold the nonce field, parse_block
\* returns the little-endian unsigned 32-bit integer at the table's offset for
\* byte 0 (the default offset for an unmapped major version), with
\* major_version = byte 0, minor_version = byte 1, timestamp = the
\* little-endian u32 of bytes 2..5 and size = the record's length; the nonce
\* is the value of four bytes, hence in 0..2^32-1.
C21_DecodesAtTableOffset ==
    (pc = "parsed" /\ Len(block_data) >= 1 /\ Len(block_data) >= C21_Offset + 4) =>
        LET o == C21_Offset
            d == block_data
        IN  /\ \A i \in 1..4 : d[o + i] \in 0..255
            /\ parsed_block =
                  << [nonce |-> d[o + 1] + 256 * d[o + 2] + 65536 * d[o + 3]
                                  + 16777216 * d[o + 4],
                      major_version |-> d[1],
                      minor_version |-> d[2],
                      timestamp |-> d[3] + 256 * d[4] + 65536 * d[5] + 16777216 * d[6],
                      size |-> Len(d)] >>
            /\ parsed_block[1].nonce >= 0

\* a record of major version 3 with the largest nonce at offset 51 has been
\* decoded to that nonce
C21_Witness ==
    /\ pc = "parsed"
    /\ block_data = MkBlock(3, 7, 70000, 51, 2147483647, 55)
    /\ parsed_block # << >>
    /\ parsed_block[1].nonce = 2147483647
    /\ parsed_block[1].timestamp = 70000

\* C22: for every record shorter than the minimum (fewer than 6 bytes, or
\* fewer than offset + 4 bytes for the offset of its major version, the empty
\* record included) parse_block returns None: a value, no parsed block.
C22_ShortRecordIsNone ==
    (pc = "parsed" /\ (Len(block_data) < 6 \/ Len(block_data) < C21_Offset + 4))
        => parsed_block = << >>

\* a record of major version 4 one byte short of its nonce field (offset 55)
\* has been handed to parse_block, which returned None
C22_Witness ==
    /\ pc = "parsed"
    /\ Len(block_data) = 58
    /\ block_data[1] = 4
    /\ parsed_block = << >>

\* C23: after N inserts of distinct hashes into a window of capacity K, with
\* N > K, the window holds the K most recent of them and none of the N - K
\* oldest: each insert beyond the capacity evicts the hash inserted longest ago.
C23_WindowKeepsTheMostRecentK ==
    (Distinct(emitted) /\ Len(emitted) > hash_window) =>
        /\ \A i \in 1..Len(emitted) :
              InWindow(emitted[i], processed_hashes) <=> i > Len(emitted) - hash_window
        /\ processed_hashes = SubSeq(emitted, Len(emitted) - hash_window + 1, Len(emitted))

\* four distinct hashes inserted into a window of capacity 2, which holds the
\* last two
C23_Witness ==
    /\ pc = "window"
    /\ hash_window = 2
    /\ Len(emitted) = 4
    /\ Distinct(emitted)
    /\ processed_hashes = << emitted[3], emitted[4] >>
    /\ ~InWindow(emitted[1], processed_hashes)

\* C24: whatever the store holds, the entries of a run are in strict
\* newest-to-oldest order of their records (an entry that precedes another in
\* new_entries was read at a later position of the store), and the rows the
\* run appends to the ledger are those entries in the same order.
C24_StrictlyNewestToOldest ==
    /\ Len(positions) = Len(new_entries)
    /\ \A i \in 1..Len(positions) :
          /\ positions[i] \in 1..Len(store)
          /\ new_entries[i].block_hash = HashOf[store[positions[i]]]
    /\ \A i, j \in 1..Len(positions) : i < j => positions[i] > positions[j]
    /\ (write_outcome = "ok" /\ pc \in {"close", "sleep"})
          => LastN(ledger.rows, Len(new_entries)) = EntryRows(new_entries)

IsPrefix(p, q) == Len(p) <= Len(q) /\ SubSeq(q, 1, Len(p)) = p

\* C25: the ledger is append-only.  A write_csv call that succeeds leaves the
\* rows already in the ledger where they were (the old content is a prefix of
\* the new), so no accepted or predicted_by_ia value of a written row changes;
\* rows leave the ledger path only by the rename of create_backup after a
\* failed write.
C25_LedgerIsAppendOnly ==
    [][/\ (pc = "write" /\ pc' = "close") =>
             /\ IsPrefix(ledger.rows, ledger'.rows)
             /\ Len(ledger'.rows) >= Len(ledger.rows) + Len(new_entries)
       /\ ~IsPrefix(ledger.rows, ledger'.rows) =>
             /\ pc = "backup"
             /\ write_outcome = "failed"
             /\ ledger' = AbsentFile
             /\ backups' = Append(backups, [file |-> BackupFile(runs),
                                            rows |-> ledger.rows])]_vars

\* a second batch has been appended to the ledger, behind the rows of the
\* first, every row still with accepted = 0 and predicted_by_ia = 0
C25_Witness ==
    /\ pc = "close"
    /\ write_outcome = "ok"
    /\ Len(written) = 2
    /\ write_failures = 0
    /\ IsPrefix(<< HeaderRow >> \o EntryRows(written[1]), ledger.rows)
    /\ Len(ledger.rows) = 1 + Len(written[1]) + Len(written[2])
    /\ \A i \in 2..Len(ledger.rows) :
          /\ ledger.rows[i].cells[1].accepted = 0
          /\ ledger.rows[i].cells[1].predicted_by_ia = 0

\* C26: a backup file is created only after a failed ledger write, in the
\* ledger's directory, and is named after the configured ledger file: its
\* basename (with or without the extension), then ".backup_", the time of
\* the backup and ".csv".
C26_BackupNamedAfterLedger ==
    /\ Len(backups) <= write_failures
    /\ \A i \in 1..Len(backups) :
          /\ backups[i].file.dir = csv_output.dir
          /\ backups[i].file.name[1] \in {csv_output.base, csv_output.stem}
          /\ backups[i].file.name[2] = ".backup_"
          /\ backups[i].file.name[4] = ".csv"

\* the only backup there is was made after the only failed write, in the
\* ledger's directory, under the name written in create_backup
C26_BackupUnderFixedName ==
    /\ Len(backups) = 1
    /\ write_failures = 1
    /\ backups[1].file.dir = csv_output.dir
    /\ backups[1].file.name[1] = "nonce_training_data"

\* C27: the existing-ledger index is loaded exactly once at process startup,
\* before the first run writes to the ledger: from the first run on,
\* load_existing_nonces has been called once.
C27_IndexLoadedOnceAtStartup == runs >= 1 => loads = 1

\* the nonce values of the lines whose nonce field is a decimal number
C28_NumericNonces(file) ==
    IF ~file.exists \/ file.lines = << >> THEN {}
    ELSE LET fields == file.lines[1]
             rows == Tail(file.lines)
         IN  IF ~({"nonce", "block_hash"} \subseteq Range(fields)) THEN {}
             ELSE LET k == FieldIndex(fields, "nonce")
                  IN  {int(rows[i][k]) :
                          i \in {j \in 1..Len(rows) :
                                    Len(rows[j]) >= k /\ IntOk(rows[j][k])}}

\* C28: load_existing_nonces never raises; for an absent file it returns the
\* empty set; for an existing file it returns exactly the nonce values of the
\* lines whose nonce field is numeric, a malformed line never keeping the
\* well-formed lines of the same file out of the result.
C28_MalformedRowsSkipped ==
    pc = "loaded" => existing = C28_NumericNonces(csv_file)

\* the step of lines 136-152: the record under the cursor was parsed, its
\* hash was not in the window, an entry is appended and the hash inserted
C29_EmitStep ==
    /\ pc = "while" /\ pc' = "prev"
    /\ env_open /\ running' = running
    /\ ParsedOf[CursorValue] # << >>
    /\ ~InWindow(HashOf[CursorValue], processed_hashes)
    /\ new_entries' = Append(new_entries,
                             MkEntry(ParsedOf[CursorValue][1], HashOf[CursorValue], runs))
    /\ processed_hashes' = deque_append(processed_hashes, HashOf[CursorValue], hash_window)
    /\ UNCHANGED << ledger, backups, store, cur >>

\* C29: the window is empty at process start and is changed only by the
\* walker inserting the hash of a record it parsed and emitted: never by a
\* duplicate skip, a corrupt record, a store error, a ledger write or the
\* signal handler, and never by the start of a later run (it is not reset
\* between runs).
C29_WindowChangedOnlyByEmit ==
    /\ processed_hashes = << >>
    /\ [][processed_hashes' # processed_hashes => C29_EmitStep]_vars

\* a later run starts its walk with the window still holding what an
\* earlier run inserted
C29_Witness ==
    /\ runs >= 2 /\ pc = "while" /\ block_count = 0 /\ new_entries = << >>
    /\ processed_hashes # << >>
    /\ processed_hashes = LastN(emitted, hash_window)

\* C30: a run opens the store, walks, writes the ledger and closes the
\* store, in this order.  The store is open exactly from the open to the
\* close of a run: it is open throughout the walk and the write, the write
\* begins only when the walk has returned (its cursor and counters are gone
\* and it left entries), nothing of the run follows its write but the
\* close, and on every path the store is closed when run_extraction has
\* returned, so it is closed during the sleep between runs and when the
\* next run opens it (at most one handle at a time).
C30_OpenWalkWriteClose ==
    /\ pc \in {"last", "while", "prev", "ret", "write", "backup", "close"} => env_open
    /\ pc \in {"loop", "open", "sleep", "cooldown", "exited"} => ~env_open
    /\ pc \in {"write", "backup"} =>
          /\ cur = 0 /\ block_count = 0 /\ retries = 0 /\ ended = "none"
          /\ new_entries # << >>
    /\ write_outcome # "none" =>
          pc \in {"backup", "close", "sleep", "cooldown", "loop", "exited"}

\* the store is closed during the sleep after a run that an unexpected
\* exception ended, in a process whose earlier run had a failed write
C30_Witness ==
    /\ pc = "sleep" /\ ~env_open
    /\ runs = 2 /\ run_fault = "unexpected"
    /\ write_failures = 1

\* C31: duplicate skips and store errors are charged to two separate
\* budgets: a walk that the retry test of its guard ended (still running,
\* block_count below max_blocks) had three consecutive duplicate skips or
\* three store errors, never a mixture of fewer of each.
C31_SeparateBudgets ==
    (pc = "ret" /\ ended = "guard" /\ running /\ block_count < max_blocks) =>
        \/ dup_skips >= RetryCeiling
        \/ StoreErrorsCounted >= RetryCeiling

\* C32: the signal handler changes only the cancellation flag: the step that
\* clears running, wherever in a run or a sleep it comes, leaves the window,
\* the entries collected so far, the cursor, the store handle and the ledger
\* file (and its backups) as they were, and the program where it was.
C32_SignalChangesOnlyTheFlag ==
    [][running' # running =>
          UNCHANGED << processed_hashes, new_entries, cur, block_count, retries,
                       env_open, ledger, backups, store, pc >>]_vars

\* the signal has arrived in the middle of a walk that has collected an
\* entry, and the walk's state is all there
C32_Witness ==
    /\ ~running /\ pc = "prev"
    /\ env_open /\ cur >= 1
    /\ new_entries # << >> /\ processed_hashes # << >>

\* the rows of the ledger that are header rows
C33_Headers == {k \in 1..Len(ledger.rows) : ledger.rows[k] = HeaderRow}
\* the rows of the ledger that are entry rows
C33_Entries == {k \in 1..Len(ledger.rows) : ledger.rows[k].cells # << >>}
\* the ledger holds fewer entry rows than the two instances wrote
C33_RowsLost ==
    Cardinality(C33_Entries) < Len(writers[1].entries) + Len(writers[2].entries)

\* C33: one header row and no lost rows hold for a single instance only.
\* When one instance has gone through write_csv while the other has not yet
\* entered it, the ledger is the header and that instance's rows; when two
\* instances, with no lock between them, have both found the path absent
\* and have both gone through write_csv, the ledger holds two header rows or
\* has lost rows of one of them.
C33_TwoWritersBreakTheLedger ==
    /\ \A i, j \in Writers :
          (writers[i].pc = "done" /\ writers[j].pc = "exists") =>
              ledger.rows = << HeaderRow >> \o EntryRows(writers[i].entries)
    /\ (\A i \in Writers : writers[i].pc = "done" /\ ~writers[i].file_exists) =>
          \/ Cardinality(C33_Headers) = 2
          \/ C33_RowsLost

\* both instances found the path absent, the second opened the file after
\* the first had written all of its rows, and the first one's rows are gone
C33_Witness ==
    /\ pc = "race"
    /\ \A i \in Writers : writers[i].pc = "done" /\ ~writers[i].file_exists
    /\ ledger.rows = << HeaderRow >> \o EntryRows(writers[2].entries)
    /\ \A k \in 1..Len(writers[1].entries) :
          EntryRow(writers[1].entries[k]) \notin Range(ledger.rows)

\* what is left for a walk to do: the entries it may still accept, then the
\* records behind the cursor, then the retries left, then the rest of the
\* pass under way
C34_Measure ==
    ((max_blocks - block_count) * (Len(store) + 1) + cur) * (2 * RetryCeiling + 2)
    + 2 * (RetryCeiling - retries)
    + (IF pc = "while" THEN 1 ELSE 0)

\* C34: every walk terminates.  Every step of process_blocks that stays in
\* the loop (a duplicate skip, a corrupt record, an accepted record, a move
\* of the cursor, a store error) increases retries, increases block_count or
\* moves the cursor to an older record, so it makes C34_Measure, which never
\* falls below 0, smaller: over a finite store the loop is left after
\* finitely many steps.
C34_EveryWalkTerminates ==
    /\ [](pc \in {"while", "prev"} => C34_Measure >= 0)
    /\ [][(pc \in {"while", "prev"} /\ pc' \in {"while", "prev"} /\ running' = running)
             => C34_Measure' < C34_Measure]_vars

\* a walk has returned after an accepted record, a store error and a
\* duplicate skip
C34_Witness ==
    /\ pc = "ret" /\ running
    /\ new_entries # << >>
    /\ dup_skips >= 1 /\ StoreErrorsCounted >= 1
    /\ retries = RetryCeiling

\* C35: if the window holds at least max_blocks hashes, the run before this
\* one saw no store error and no signal, the store has not changed since
\* that run began and this run has seen neither so far (calm = 1), then
\* this run emits no entry and does not touch the ledger: it has collected
\* nothing, extracted no record (the older ones behind the newest valid
\* record included) and never reaches write_csv.
C35_SecondRunEmitsNothing ==
    (calm = 1 /\ hash_window >= max_blocks) =>
        /\ pc \notin {"write", "backup"}
        /\ pc \in {"open", "last", "while", "prev", "ret", "close"} =>
              write_outcome = "none"
        /\ pc \in {"while", "prev", "ret", "close"} =>
              new_entries = << >> /\ positions = << >>

\* the second walk over an unchanged store of two records, of which the
\* first run took the newer one only, has ended on three duplicate skips
\* with nothing collected
C35_Witness ==
    /\ calm = 1 /\ runs = 2 /\ pc = "ret"
    /\ hash_window >= max_blocks /\ max_blocks = 1
    /\ Len(store) = 2 /\ cur = 2
    /\ dup_skips = RetryCeiling
    /\ new_entries = << >>
    /\ Len(ledger.rows) = 2

\* write_csv has failed in this run and has returned
C36_AfterFailedWrite == write_outcome = "failed" /\ pc \in {"close", "sleep", "loop"}
\* the rows of this run's batch that a sequence of rows holds (an entry's
\* timestamp tells its run)
C36_RowsOfBatch(rows) ==
    SelectSeq(rows, LAMBDA r : r.cells # << >> /\ r.cells[1].timestamp = runs)
\* the hashes of the batch that the window has room for are its newest ones
C36_HashesStay ==
    LET n == Min(Len(new_entries), hash_window)
    IN  LastN(processed_hashes, n) = LastN(Hashes(new_entries), n)
\* a hash is not emitted again while it is in the window
C36_NotEmittedAgain ==
    \A i, j \in 1..Len(emitted) :
        (i < j /\ j - i <= hash_window) => emitted[i] # emitted[j]

\* C36 as stated: after a failed write the batch's entries are not in the
\* ledger, while their hashes stay in the window and the records are not
\* emitted again.
C36_Original_NeverInLedger ==
    C36_AfterFailedWrite =>
        /\ C36_RowsOfBatch(ledger.rows) = << >>
        /\ C36_HashesStay
        /\ C36_NotEmittedAgain

\* C36 amended: after a failed write the batch is not written again.  When
\* the backup rename succeeded, or there was no file to rename, the ledger
\* path is absent and the backup holds the part of the batch that had
\* reached the file; when the rename failed, that part stays at the end of
\* the ledger.  In every case the hashes stay in the window and the records
\* are not emitted again while they are there.
C36_FailedBatchIsLost ==
    C36_AfterFailedWrite =>
        /\ backup_outcome \in {"renamed", "nofile", "failed"}
        /\ backup_outcome \in {"renamed", "nofile"} => ledger = AbsentFile
        /\ backup_outcome = "renamed" =>
              \E k \in 0..Len(new_entries) :
                 C36_RowsOfBatch(backups[Len(backups)].rows)
                     = EntryRows(SubSeq(new_entries, 1, k))
        /\ backup_outcome = "failed" =>
              /\ ledger.exists
              /\ \E k \in 0..Len(new_entries) :
                    /\ C36_RowsOfBatch(ledger.rows) = EntryRows(SubSeq(new_entries, 1, k))
                    /\ LastN(ledger.rows, k) = EntryRows(SubSeq(new_entries, 1, k))
        /\ C36_HashesStay
        /\ C36_NotEmittedAgain

\* nothing was ever written with success, the only batch was lost in a
\* failed write, and the next run has skipped its record as a duplicate
\* three times and collected nothing
C36_Witness ==
    /\ runs = 2 /\ pc = "ret"
    /\ write_failures = 1 /\ written = << >>
    /\ ledger = AbsentFile
    /\ emitted # << >> /\ processed_hashes # << >>
    /\ dup_skips = RetryCeiling /\ new_entries = << >>

\* the ledger path is absent, or holds one header row followed by entry rows
C37_WellFormed(file) ==
    \/ file = AbsentFile
    \/ /\ file.exists
       /\ file.rows # << >>
       /\ file.rows[1] = HeaderRow
       /\ \A k \in 2..Len(file.rows) :
             ~file.rows[k].header /\ file.rows[k].cells # << >>

\* C37: starting from an absent ledger, as long as every backup rename
\* succeeds, the ledger path is absent or holds exactly one header row
\* followed only by entry rows whenever write_csv is not under way: it is
\* so at the start; a step outside create_backup keeps it so or is a failed
\* write, which enters create_backup; and create_backup, when its rename
\* does not fail, moves the file the failed write left away, so that the
\* next successful write creates the ledger again with a header.
C37_LedgerStaysWellFormed ==
    /\ C37_WellFormed(ledger)
    /\ [][/\ (C37_WellFormed(ledger) /\ pc # "backup") =>
                (C37_WellFormed(ledger') \/ pc' = "backup")
          /\ (pc = "backup" /\ pc' # "backup" /\ backup_outcome' # "failed") =>
                ledger' = AbsentFile]_vars

\* a failed write left a file that was moved to a backup, and a later write
\* has created the ledger again, with its header and a row
C37_Witness ==
    /\ write_failures = 1 /\ Len(backups) = 1
    /\ backups[1].rows # << >>
    /\ write_outcome = "ok" /\ pc = "close"
    /\ Len(ledger.rows) = 2 /\ ledger.rows[1] = HeaderRow
    /\ C37_WellFormed(ledger)

\* the signal has arrived and the run is over, with the entries its walk
\* returned still in new_entries (an entry's timestamp tells its run)
C38_AfterLastWalk ==
    /\ ~running /\ pc \in {"close", "sleep", "loop", "exited"}
    /\ new_entries # << >>
    /\ new_entries[1].timestamp = runs
\* the entries the walk returned are the last rows of the ledger
C38_BatchInLedger ==
    /\ ledger.exists
    /\ LastN(ledger.rows, Len(new_entries)) = EntryRows(new_entries)

\* C38 as stated: the entries collected by a walk that the signal stopped
\* part-way are in the ledger when the main loop exits.
C38_Original_AlwaysWritten ==
    (C38_AfterLastWalk /\ pc = "exited") => C38_BatchInLedger

\* C38 amended: the entries collected by a walk that the signal stopped
\* part-way are handed to write_csv before the main loop exits, and are the
\* last rows of the ledger unless that write fails; a run whose walk
\* returned no entries makes no ledger write: the ledger file is created or
\* changed only inside write_csv, which is entered only with entries.
C38_CancelledBatchHandedToWriter ==
    /\ [](C38_AfterLastWalk =>
            /\ write_outcome \in {"ok", "failed"}
            /\ write_outcome = "ok" => C38_BatchInLedger)
    /\ [](pc \in {"write", "backup"} => new_entries # << >>)
    /\ [][ledger' # ledger => (pc \in {"write", "backup"} /\ new_entries # << >>)]_vars

\* the first run, over two valid records with room for both, was stopped by
\* the signal after one entry (no store error, no duplicate); the entry was
\* written and the main loop has exited
C38_Witness ==
    /\ pc = "exited" /\ ~running
    /\ runs = 1 /\ events = 0
    /\ store = << 1, 2 >> /\ max_blocks = 2 /\ hash_window = 2
    /\ Len(new_entries) = 1
    /\ ledger.rows = << HeaderRow >> \o EntryRows(new_entries)

\* C39: a store error never causes a record to be emitted twice or skipped:
\* no run emits the record at one cursor position twice, and a walk that
\* ends on a record it has itself emitted, still running, with room for
\* more entries and older records not yet examined, has been ended by the
\* store errors alone (three of them), not by one failing cursor step.
C39_StoreErrorNeitherSkipsNorRepeats ==
    /\ Distinct(positions)
    /\ (/\ pc = "ret" /\ running /\ block_count < max_blocks
        /\ cur > 1 /\ positions # << >> /\ positions[Len(positions)] = cur)
          => StoreErrorsCounted >= RetryCeiling

============================================================================
